---- MODULE Spec2Model ----
(***************************************************************************)
(* Extraction job orchestration of DocEX: the job record, the in-memory    *)
(* registry (extraction_jobs), the file-per-job persistence manager, the   *)
(* background worker run_extraction_job and the request handlers of        *)
(* routes/agent_api.py that read or write jobs.                            *)
(*                                                                         *)
(* Python values are modelled as follows.  None is the string "None", JSON *)
(* null is the string "null"; a dict or an object is a record; an absent   *)
(* file, a dead thread or an empty buffer is the empty sequence and a      *)
(* present one a one-element sequence.  Costs are in thousandths of a      *)
(* dollar.  A job id extract_<n>_<t> is the pair <<n, t>>.                 *)
(***************************************************************************)
EXTENDS Integers, Sequences, FiniteSets, TLC

\* ---------------------------------------------------------------- bounds
MaxJobs == 2        \* submissions accepted over all process lifetimes
MaxClock == 1       \* values of int(time.time()) are 0..MaxClock
MaxRestarts == 1    \* process crashes followed by a restart
MaxEdits == 1       \* POST /extract/<id>/edit requests
MaxPolls == 2       \* GET /extract/<id>/status requests
MaxFailures == 1    \* save_job calls of a job that fail
MaxCalls == 1       \* outermost calls of extract_stakeholders on one agent
MaxChain == 2       \* length of the configured fallback_chain
MaxDepth == 3       \* nested extract_stakeholders calls the interpreter's recursion limit allows
MaxRequests == 1    \* requests a client makes about a job after a restart

Slots == 1..MaxJobs
Ids == (1..MaxJobs) \X (0..MaxClock)

\* ------------------------------------------------------------ job record
None == "None"
Null == "null"

Terminal == {"complete", "error"}

\* values of data.get('priority', 'cost') the model submits; "unhashable"
\* stands for a JSON list or object, which no dict lookup accepts
PriorityInputs == {"cost", "quality", "unhashable"}

\* results is None or a dict; the model keeps its @type (kind), the
\* extractionMethod of its stakeholders and the stakeholders value
ResultsNone == [kind |-> None, method |-> "-", stakeholders |-> "-"]

Truthy(results) == results.kind # None

\* options built by start_extraction; jsonld_dir is always a non-empty path
MakeOptions == [use_context |-> TRUE, detailed_output |-> TRUE, jsonld_dir |-> "jsonld"]

ExtractionJob(job_id, filename, priority, options, now) ==
  [ job_id |-> job_id, filename |-> filename, priority |-> priority,
    options |-> options, status |-> "pending", progress |-> 0,
    current_step |-> "Initializing...", substep |-> "", start_time |-> now,
    model_used |-> None, cost_estimate |-> 0, results |-> ResultsNone,
    error |-> None ]

get_model_for_priority(priority) ==
  CASE priority = "cost" -> "Local Llama 3.1 8B"
    [] priority = "quality" -> "GPT-4o"
    [] priority = "speed" -> "DeepSeek-V3"
    [] priority = "privacy" -> "Local Llama 3.1 8B"
    [] OTHER -> "Unknown"

calculate_extraction_cost(job) ==
  CASE job.priority = "cost" -> 0
    [] job.priority = "quality" -> 8
    [] job.priority = "speed" -> 2
    [] job.priority = "privacy" -> 0
    [] OTHER -> 0

\* the seven (step, substep) pairs of run_extraction_job
steps ==
  << <<"Document analysis complete", "Metadata and structure extracted">>,
     <<"Initializing LLM adapter...", "Loading language model">>,
     <<"Generating extraction prompt...", "Preparing AI analysis">>,
     <<"AI processing document content...", "Extracting stakeholder information">>,
     <<"Processing LLM response...", "Validating extracted stakeholders">>,
     <<"Integrating results...", "Merging with document metadata">>,
     <<"Finalizing output...", "Creating comprehensive JSON-LD">> >>

total_steps == Len(steps)

\* int(20 + (i / total_steps) * 50)
LoopProgress(i) == 20 + ((i * 50) \div total_steps)

\* --------------------------------------------------------- JSON encoding
ToJSON(v) == IF v = None THEN Null ELSE v

FromJSON(v) == IF v = Null THEN None ELSE v

ResultsToJSON(r) ==
  [kind |-> ToJSON(r.kind), method |-> r.method, stakeholders |-> ToJSON(r.stakeholders)]

ResultsFromJSON(r) ==
  [kind |-> FromJSON(r.kind), method |-> r.method, stakeholders |-> FromJSON(r.stakeholders)]

\* the job_data dict of PersistentJobManager.save_job, as json.dump writes it
SaveJobData(job) ==
  [ job_id |-> job.job_id, filename |-> job.filename, priority |-> job.priority,
    options |-> job.options, status |-> job.status, progress |-> job.progress,
    current_step |-> job.current_step, substep |-> job.substep,
    start_time |-> job.start_time, model_used |-> ToJSON(job.model_used),
    cost_estimate |-> job.cost_estimate, results |-> ResultsToJSON(job.results),
    error |-> ToJSON(job.error) ]

\* job_data.get(key, default) on a parsed record
Get(job_data, key, default) ==
  IF key \in DOMAIN job_data THEN job_data[key] ELSE default

\* a restore that leaves progress and error at the constructor's values
RestoreJobForgetful(job_data, now) ==
  LET job == ExtractionJob(job_data.job_id, job_data.filename, job_data.priority,
                           job_data.options, now)
  IN [ job EXCEPT
         !.status = Get(job_data, "status", "pending"),
         !.current_step = Get(job_data, "current_step", "Initializing..."),
         !.substep = Get(job_data, "substep", ""),
         !.start_time = Get(job_data, "start_time", now),
         !.model_used = FromJSON(Get(job_data, "model_used", Null)),
         !.cost_estimate = Get(job_data, "cost_estimate", 0),
         !.results = ResultsFromJSON(Get(job_data, "results", ResultsToJSON(ResultsNone))) ]

\* the restore of load_jobs_from_persistence and of get_extraction_status:
\* a new ExtractionJob, then every state field from the record
RestoreJob(job_data, now) ==
  LET job == ExtractionJob(job_data.job_id, job_data.filename, job_data.priority,
                           job_data.options, now)
  IN [ job EXCEPT
         !.status = Get(job_data, "status", "pending"),
         !.progress = Get(job_data, "progress", 0),
         !.current_step = Get(job_data, "current_step", "Initializing..."),
         !.substep = Get(job_data, "substep", ""),
         !.start_time = Get(job_data, "start_time", now),
         !.model_used = FromJSON(Get(job_data, "model_used", Null)),
         !.cost_estimate = Get(job_data, "cost_estimate", 0),
         !.results = ResultsFromJSON(Get(job_data, "results", ResultsToJSON(ResultsNone))),
         !.error = FromJSON(Get(job_data, "error", Null)) ]

\* the restore of approve_extraction and edit_extraction_results: five fields
RestoreJobPartial(job_data, now) ==
  LET job == ExtractionJob(job_data.job_id, job_data.filename, job_data.priority,
                           job_data.options, now)
  IN [ job EXCEPT
         !.status = Get(job_data, "status", "pending"),
         !.results = ResultsFromJSON(Get(job_data, "results", ResultsToJSON(ResultsNone))),
         !.model_used = FromJSON(Get(job_data, "model_used", Null)),
         !.start_time = Get(job_data, "start_time", now),
         !.cost_estimate = Get(job_data, "cost_estimate", 0) ]

\* ----------------------------------------------------------------- state
VARIABLES
  clock,        \* int(time.time())
  job_counter,  \* extraction_utils.job_counter
  heap,         \* the live ExtractionJob objects, by slot
  registry,     \* extraction_jobs: job id -> slot of the object it refers to
  store,        \* temp/jobs/<id>.json: <<>> truncated or partial, <<record>> complete
  saved,        \* per job id, the field values the last completed save_job was given
  spc,          \* position of each start_extraction request thread
  stmp,         \* the value of eu.job_counter a request thread has loaded
  sid,          \* the job id each submission was answered with
  sresp,        \* the HTTP status of each submission's answer (0: none yet)
  wpc,          \* position of each job's worker in run_extraction_job
  wi,           \* the worker's loop index over steps[1:]
  wr,           \* the job values a worker's save_job holds while the file is open
  attempts,     \* outcomes of the LLM providers try_llm_extraction called, in order
  edits,        \* edit requests received so far
  epc,          \* position of the edit request thread
  eslot,        \* the job object the edit request thread holds
  ewr,          \* the job values the edit thread's save_job holds while the file is open
  eresp,        \* the HTTP status of the last edit answer (0: none yet)
  polls,        \* status requests received so far
  ppc,          \* position of the status request thread
  ptarget,      \* the job id the polling client asks about
  pslot,        \* the job object the status request thread holds
  pstatus,      \* the status the status request thread has read
  presp,        \* the last status answer
  prevRun,      \* the progress of the last answer before it that said running
  restarts,     \* crashes so far
  rresp,        \* the HTTP status of the last results answer (0: none yet)
  aresp,        \* the HTTP status of the last approve answer (0: none yet)
  failures,     \* per job, the save_job calls that have failed
  model_availability,  \* DataExtractionAgent.model_availability (<<>>: no agent)
  agent_config,        \* the parsed agents.yaml of the agent
  performance_stats,   \* DataExtractionAgent.performance_stats
  astack,       \* the call stack of the thread inside extract_stakeholders
  acall,        \* the arguments of the current or last outermost call
  aresult,      \* what the last outermost call returned or raised
  attempted,    \* the (strategy, model) pairs the current or last outermost call invoked a provider with
  acalls,       \* outermost calls of extract_stakeholders made so far
  abase,        \* performance_stats when the current or last outermost call began
  reachable     \* which model endpoints answered when the agent was constructed

procVars == << job_counter, heap, registry >>
subVars == << spc, stmp, sid, sresp >>
workVars == << wpc, wi, wr, attempts >>
editVars == << edits, epc, eslot, ewr, eresp >>
pollVars == << polls, ppc, ptarget, pslot, pstatus, presp, prevRun >>
readVars == << rresp, aresp >>
agentVars == << model_availability, agent_config, performance_stats, astack, acall,
                aresult, attempted, acalls, abase, reachable >>
otherVars == << readVars, failures, agentVars >>

vars == << clock, job_counter, heap, registry, store, saved, spc, stmp, sid, sresp,
           wpc, wi, wr, attempts, edits, epc, eslot, ewr, eresp,
           polls, ppc, ptarget, pslot, pstatus, presp, prevRun, restarts,
           rresp, aresp, failures, model_availability, agent_config, performance_stats,
           astack, acall, aresult, attempted, acalls, abase, reachable >>

Live == DOMAIN heap

JobInit ==
  /\ clock = 0
  /\ job_counter = 0
  /\ heap = << >>
  /\ registry = << >>
  /\ store = << >>
  /\ spc = [r \in Slots |-> "idle"]
  /\ stmp = [r \in Slots |-> 0]
  /\ sid = [r \in Slots |-> << >>]
  /\ sresp = [r \in Slots |-> 0]
  /\ wpc = [k \in Slots |-> "none"]
  /\ wi = [k \in Slots |-> 0]
  /\ wr = [k \in Slots |-> << >>]
  /\ attempts = [k \in Slots |-> << >>]
  /\ saved = << >>
  /\ edits = 0
  /\ epc = "idle"
  /\ eslot = 0
  /\ ewr = << >>
  /\ eresp = 0
  /\ polls = 0
  /\ ppc = "idle"
  /\ ptarget = << >>
  /\ pslot = 0
  /\ pstatus = "none"
  /\ presp = [status |-> "none", progress |-> 0]
  /\ prevRun = -1
  /\ restarts = 0
  /\ rresp = 0
  /\ aresp = 0
  /\ failures = [k \in Slots |-> 0]

\* no DataExtractionAgent has been constructed
Init ==
  /\ JobInit
  /\ model_availability = << >>
  /\ agent_config = << >>
  /\ performance_stats = << >>
  /\ astack = << >>
  /\ acall = << >>
  /\ aresult = << >>
  /\ attempted = << >>
  /\ acalls = 0
  /\ abase = << >>
  /\ reachable = << >>

\* the clock second advances.  The clock is read by start_extraction only
\* (the id and start_time), so the model lets it advance while a request is
\* about to read it; a tick at any other moment leads to the same states.
Tick ==
  /\ clock < MaxClock
  /\ \E r \in Slots : spc[r] = "stored"
  /\ clock' = clock + 1
  /\ UNCHANGED << procVars, store, saved, subVars, workVars, editVars, pollVars, restarts, otherVars >>

Put(f, key, value) ==
  [x \in (DOMAIN f) \cup {key} |-> IF x = key THEN value ELSE f[x]]

\* ------------------------------------------- POST /extract (start_extraction)
\* eu.job_counter += 1 is a load and a store that other request threads
\* interleave with; the id is then built from a second read of the counter

\* line 109, the load
SubmitLoad(r) ==
  /\ spc[r] = "idle"
  /\ \A q \in Slots : q < r => spc[q] # "idle"
  /\ stmp' = [stmp EXCEPT ![r] = job_counter]
  /\ spc' = [spc EXCEPT ![r] = "loaded"]
  /\ UNCHANGED << clock, procVars, store, saved, sid, sresp, workVars, editVars,
                  pollVars, restarts, otherVars >>

\* line 109, the store
SubmitStore(r) ==
  /\ spc[r] = "loaded"
  /\ job_counter' = stmp[r] + 1
  /\ spc' = [spc EXCEPT ![r] = "stored"]
  /\ UNCHANGED << clock, heap, registry, store, saved, stmp, sid, sresp, workVars,
                  editVars, pollVars, restarts, otherVars >>

\* get_estimated_duration: durations.get(priority, 120) raises TypeError on
\* an unhashable priority, which start_extraction answers with 500
SubmitStatus(priority) == IF priority = "unhashable" THEN 500 ELSE 200

\* lines 110-144: build the id, create the job, register it, start the
\* worker, answer
SubmitCreate(r) ==
  /\ spc[r] = "stored"
  /\ \E priority \in PriorityInputs :
       LET job_id == << job_counter, clock >>
           job == ExtractionJob(job_id, "doc", priority, MakeOptions, clock)
       IN /\ heap' = Put(heap, r, job)
          /\ registry' = Put(registry, job_id, r)
          /\ sid' = [sid EXCEPT ![r] = << job_id >>]
          /\ sresp' = [sresp EXCEPT ![r] = SubmitStatus(priority)]
  /\ wpc' = [wpc EXCEPT ![r] = "w141"]
  /\ spc' = [spc EXCEPT ![r] = "done"]
  /\ UNCHANGED << clock, job_counter, store, saved, stmp, wi, wr, attempts, editVars,
                  pollVars, restarts, otherVars >>

\* --------------------------------------------- PersistentJobManager.save_job
\* lines 29-47: job_data is built from the job's fields and the file is
\* opened for writing, which truncates it
SaveOpen(job) == Put(store, job.job_id, << >>)

\* line 48: json.dump has written job_data and the file is closed
SaveDump(job) == Put(store, job.job_id, << SaveJobData(job) >>)

\* ------------------------------------------------------ ExtractionJob methods
update_status(job, status) == [job EXCEPT !.status = status]

update_status_error(job, message) ==
  [job EXCEPT !.status = "error", !.error = message]

\* ------------------------------------ enhanced_jsonld_bridge (the extraction)
Providers == << "DataExtractionAgent", "StructuredExtractionAdapter", "LocalLlamaClient" >>

Outcomes == [1..Len(Providers) -> {"ok", "fail"}]

\* the providers try_llm_extraction calls: each in turn until one returns
\* stakeholders
RECURSIVE Attempted(_, _)
Attempted(outcomes, i) ==
  IF i > Len(Providers) THEN << >>
  ELSE IF outcomes[i] = "ok" THEN << "ok" >>
  ELSE << "fail" >> \o Attempted(outcomes, i + 1)

try_llm_extraction(outcomes) ==
  IF \E i \in 1..Len(Providers) : outcomes[i] = "ok" THEN "llm_list" ELSE "empty_list"

create_placeholder_stakeholder == "placeholder_list"

perform_stakeholder_extraction(has_content, outcomes, pattern_found) ==
  IF ~has_content THEN create_placeholder_stakeholder
  ELSE IF try_llm_extraction(outcomes) # "empty_list" THEN try_llm_extraction(outcomes)
  ELSE IF pattern_found THEN "pattern_list"
  ELSE create_placeholder_stakeholder

ExtractionMethod(stakeholders) ==
  CASE stakeholders = "llm_list" -> "llm-based"
    [] stakeholders = "pattern_list" -> "enhanced-pattern-matching"
    [] stakeholders = "placeholder_list" -> "placeholder"
    [] OTHER -> "none"

create_extraction_result(stakeholders) ==
  [kind |-> "StakeholderExtraction", method |-> ExtractionMethod(stakeholders),
   stakeholders |-> stakeholders]

generate_error_result ==
  [kind |-> "ExtractionError", method |-> "-", stakeholders |-> "empty_list"]

\* every exception is caught inside: the call always returns a dict
extract_stakeholders_enhanced(file_found, has_content, outcomes, pattern_found) ==
  IF ~file_found THEN generate_error_result
  ELSE create_extraction_result(
         perform_stakeholder_extraction(has_content, outcomes, pattern_found))

\* ------------------------------------------------------- run_extraction_job
\* One action per statement group that ends in a save; a worker takes its
\* next step once its previous save_job has returned.

WorkerAt(k, pc) == k \in Live /\ wpc[k] = pc /\ wr[k] = << >>

WorkerFrame == UNCHANGED << clock, job_counter, registry, saved, subVars, editVars,
                            pollVars, restarts, otherVars >>

\* assign the job's fields and call job.save(), up to the open of the file
WSave(k, job, nextpc) ==
  /\ heap' = [heap EXCEPT ![k] = job]
  /\ store' = SaveOpen(job)
  /\ wr' = [wr EXCEPT ![k] = << job >>]
  /\ wpc' = [wpc EXCEPT ![k] = nextpc]

\* the worker's save_job writes the file and returns
WDump(k) ==
  /\ k \in Slots
  /\ Len(wr[k]) = 1
  /\ store' = SaveDump(wr[k][1])
  /\ saved' = Put(saved, wr[k][1].job_id, wr[k][1])
  /\ wr' = [wr EXCEPT ![k] = << >>]
  /\ UNCHANGED << clock, procVars, subVars, wpc, wi, attempts, editVars, pollVars,
                  restarts, otherVars >>

\* a save_job whose exception escapes into run_extraction_job: the except
\* branch there sets status error and saves again
WDumpRaises(k) ==
  /\ k \in Slots
  /\ Len(wr[k]) = 1
  /\ failures[k] < MaxFailures
  /\ failures' = [failures EXCEPT ![k] = failures[k] + 1]
  /\ heap' = [heap EXCEPT ![k] = update_status_error(heap[k], "save failed")]
  /\ store' = SaveOpen(heap[k])
  /\ wr' = [wr EXCEPT ![k] = << update_status_error(heap[k], "save failed") >>]
  /\ wpc' = [wpc EXCEPT ![k] = "w245"]
  /\ UNCHANGED << clock, job_counter, registry, saved, subVars, wi, attempts, editVars,
                  pollVars, restarts, readVars, agentVars >>

\* lines 52-55: json.dump raises while the file is open (disk full, a value
\* json cannot encode); save_job catches the exception, prints it and returns
\* False, which ExtractionJob.save drops.  The file stays as the failed
\* write left it.
WDumpFails(k) ==
  /\ k \in Slots
  /\ Len(wr[k]) = 1
  /\ failures[k] < MaxFailures
  /\ failures' = [failures EXCEPT ![k] = failures[k] + 1]
  /\ wr' = [wr EXCEPT ![k] = << >>]
  /\ UNCHANGED << clock, procVars, store, saved, subVars, wpc, wi, attempts, editVars,
                  pollVars, restarts, readVars, agentVars >>

\* line 244, entered from the statement that raised: job.update_status('error', error=str(e))
Raise(k, message) == WSave(k, update_status_error(heap[k], message), "w245")

\* line 141: job.update_status('running')
W141(k) ==
  /\ WorkerAt(k, "w141")
  /\ WSave(k, update_status(heap[k], "running"), "w142")
  /\ UNCHANGED << wi, attempts >>
  /\ WorkerFrame

\* lines 142-143: models.get(priority, "Unknown") raises on an unhashable priority
W142(k) ==
  /\ WorkerAt(k, "w142")
  /\ IF heap[k].priority = "unhashable"
       THEN Raise(k, "unhashable type")
       ELSE WSave(k, [heap[k] EXCEPT !.model_used = get_model_for_priority(heap[k].priority)],
                  "w148")
  /\ UNCHANGED << wi, attempts >>
  /\ WorkerFrame

\* lines 148-151
W148(k) ==
  /\ WorkerAt(k, "w148")
  /\ WSave(k, [heap[k] EXCEPT !.current_step = "Processing document metadata...",
                              !.substep = "Creating comprehensive document profile",
                              !.progress = 10], "w165")
  /\ UNCHANGED << wi, attempts >>
  /\ WorkerFrame

\* lines 154-182.  import os is executed only when the job has no jsonld_dir,
\* and makes os a local name of the function: with a jsonld_dir, the use of
\* os.path.join at line 173 raises UnboundLocalError as soon as
\* create_document_metadata_from_source has found the source document.
W165(k) ==
  /\ WorkerAt(k, "w165")
  /\ \E document_metadata \in BOOLEAN :
       IF document_metadata
         THEN IF heap[k].options.jsonld_dir # ""
                THEN /\ Raise(k, "UnboundLocalError")
                     /\ wi' = wi
                ELSE /\ WSave(k, [heap[k] EXCEPT !.current_step = "Document metadata created",
                                                 !.progress = 20], "loop")
                     /\ wi' = [wi EXCEPT ![k] = 1]
         ELSE /\ wpc' = [wpc EXCEPT ![k] = "loop"]
              /\ wi' = [wi EXCEPT ![k] = 1]
              /\ UNCHANGED << heap, store, wr >>
  /\ UNCHANGED attempts
  /\ WorkerFrame

\* a loop that does not advance to its next step
WLoopStuck(k) ==
  /\ WorkerAt(k, "loop")
  /\ WSave(k, [heap[k] EXCEPT !.current_step = steps[wi[k] + 1][1],
                              !.substep = steps[wi[k] + 1][2],
                              !.progress = LoopProgress(wi[k])], "loop")
  /\ wi' = wi
  /\ UNCHANGED attempts
  /\ WorkerFrame

\* lines 197-211: for i, (step, substep) in enumerate(steps[1:], 1)
WLoop(k) ==
  /\ WorkerAt(k, "loop")
  /\ WSave(k, [heap[k] EXCEPT !.current_step = steps[wi[k] + 1][1],
                              !.substep = steps[wi[k] + 1][2],
                              !.progress = LoopProgress(wi[k])],
           IF wi[k] + 1 < total_steps THEN "loop" ELSE "w213")
  /\ wi' = [wi EXCEPT ![k] = wi[k] + 1]
  /\ UNCHANGED attempts
  /\ WorkerFrame

\* lines 213-216
W213(k) ==
  /\ WorkerAt(k, "w213")
  /\ WSave(k, [heap[k] EXCEPT !.current_step = "AI extracting stakeholders...",
                              !.substep = "Deep analysis of document content",
                              !.progress = 70], "w220")
  /\ UNCHANGED << wi, attempts >>
  /\ WorkerFrame

\* line 220: job.results = extract_stakeholders_enhanced(job.filename, jsonld_dir)
W220(k) ==
  /\ WorkerAt(k, "w220")
  /\ \E file_found \in BOOLEAN, has_content \in BOOLEAN, outcomes \in Outcomes,
        pattern_found \in BOOLEAN :
       /\ heap' = [heap EXCEPT ![k].results =
                     extract_stakeholders_enhanced(file_found, has_content, outcomes,
                                                   pattern_found)]
       /\ attempts' = [attempts EXCEPT ![k] =
                         IF file_found /\ has_content THEN Attempted(outcomes, 1) ELSE << >>]
  /\ wpc' = [wpc EXCEPT ![k] = "w222"]
  /\ UNCHANGED << store, wr, wi >>
  /\ WorkerFrame

\* lines 222-225
W222(k) ==
  /\ WorkerAt(k, "w222")
  /\ WSave(k, [heap[k] EXCEPT !.progress = 90,
                              !.current_step = "Integrating with document metadata...",
                              !.substep = "Creating comprehensive document profile"], "w229")
  /\ UNCHANGED << wi, attempts >>
  /\ WorkerFrame

\* lines 229-232, ending in job.update_status('complete')
W229(k) ==
  /\ WorkerAt(k, "w229")
  /\ WSave(k, update_status([heap[k] EXCEPT !.progress = 100,
                                            !.current_step = "Comprehensive extraction complete",
                                            !.substep = "Document metadata + stakeholders ready"],
                            "complete"), "w235")
  /\ UNCHANGED << wi, attempts >>
  /\ WorkerFrame

\* lines 235-236
W235(k) ==
  /\ WorkerAt(k, "w235")
  /\ WSave(k, [heap[k] EXCEPT !.cost_estimate = calculate_extraction_cost(heap[k])], "w240")
  /\ UNCHANGED << wi, attempts >>
  /\ WorkerFrame

\* len() of the stakeholders value: only a list has one
Sized(stakeholders) == stakeholders \notin {None, "-"}

\* lines 238-241: len(job.results.get('stakeholders', [])) inside the try block
W240(k) ==
  /\ WorkerAt(k, "w240")
  /\ IF Sized(heap[k].results.stakeholders)
       THEN /\ wpc' = [wpc EXCEPT ![k] = "done"]
            /\ UNCHANGED << heap, store, wr >>
       ELSE Raise(k, "object of type 'NoneType' has no len()")
  /\ UNCHANGED << wi, attempts >>
  /\ WorkerFrame

\* line 245: job.progress = 0, after the handler's update_status, not saved
W245(k) ==
  /\ WorkerAt(k, "w245")
  /\ heap' = [heap EXCEPT ![k].progress = 0]
  /\ wpc' = [wpc EXCEPT ![k] = "done"]
  /\ UNCHANGED << store, wr, wi, attempts >>
  /\ WorkerFrame

WorkerStep(k) ==
  \/ W141(k) \/ W142(k) \/ W148(k) \/ W165(k) \/ WLoop(k) \/ W213(k) \/ W220(k)
  \/ W222(k) \/ W229(k) \/ W235(k) \/ W240(k) \/ W245(k) \/ WDump(k)

\* ------------------------------------------------ PersistentJobManager.load_job
\* the file exists and json.load parses it; a truncated or partial file makes
\* json.load raise, which load_job answers with None
Loadable(job_id) == job_id \in DOMAIN store /\ Len(store[job_id]) = 1

load_job(job_id) == store[job_id][1]

\* the ids clients hold: those a submission was answered with
KnownIds == { sid[r][1] : r \in { q \in Slots : sid[q] # << >> } }

\* the slot a job object re-created from the file of job_id is put in
SlotOf(job_id) ==
  CHOOSE k \in Slots : sid[k] = << job_id >> /\ \A q \in Slots : sid[q] = << job_id >> => q <= k

\* ------------------------- POST /extract/<job_id>/edit (edit_extraction_results)
\* the stakeholders member of the request body: a list, or JSON null
EditInputs == {"edited_list", None}

\* lines 938-941
EditedResults(results, stakeholders) ==
  IF ~Truthy(results)
    THEN [kind |-> "dict", method |-> "-", stakeholders |-> stakeholders]
    ELSE [results EXCEPT !.stakeholders = stakeholders]

\* lines 890-944: find the job (re-creating it from its file when it is not
\* resident), replace the stakeholders, call job.save() up to the open
EditPost(job_id, stakeholders) ==
  /\ epc = "idle"
  /\ edits < MaxEdits
  /\ edits' = edits + 1
  /\ IF job_id \in DOMAIN registry \/ Loadable(job_id)
       THEN LET slot == IF job_id \in DOMAIN registry THEN registry[job_id]
                        ELSE SlotOf(job_id)
                found == IF job_id \in DOMAIN registry THEN heap[slot]
                         ELSE RestoreJobPartial(load_job(job_id), clock)
                job == [found EXCEPT !.results = EditedResults(found.results, stakeholders)]
            IN /\ heap' = Put(heap, slot, job)
               /\ registry' = Put(registry, job_id, slot)
               /\ store' = SaveOpen(job)
               /\ ewr' = << job >>
               /\ eslot' = slot
               /\ epc' = "saving"
               /\ eresp' = eresp
       ELSE /\ eresp' = 404
            /\ UNCHANGED << heap, registry, store, ewr, eslot, epc >>
  /\ UNCHANGED << clock, job_counter, saved, subVars, workVars, pollVars, restarts, otherVars >>

\* lines 944-950: save_job writes the file and returns; the answer counts the
\* stakeholders with len(), which raises on a value that is not a list
EditDump ==
  /\ epc = "saving"
  /\ store' = SaveDump(ewr[1])
  /\ saved' = Put(saved, ewr[1].job_id, ewr[1])
  /\ eresp' = IF Sized(heap[eslot].results.stakeholders) THEN 200 ELSE 500
  /\ ewr' = << >>
  /\ epc' = "idle"
  /\ UNCHANGED << clock, procVars, subVars, workVars, edits, eslot, pollVars, restarts, otherVars >>

\* --------------------- GET /extract/<job_id>/status (get_extraction_status)
\* lines 159-197: find the job (re-creating it from its file when it is not
\* resident) and read job.status
PollStatus(job_id) ==
  /\ ppc = "idle"
  /\ polls < MaxPolls
  /\ ptarget \in {<< >>, << job_id >>}
  /\ ptarget' = << job_id >>
  /\ polls' = polls + 1
  /\ IF job_id \in DOMAIN registry \/ Loadable(job_id)
       THEN LET slot == IF job_id \in DOMAIN registry THEN registry[job_id]
                        ELSE SlotOf(job_id)
                job == IF job_id \in DOMAIN registry THEN heap[slot]
                       ELSE RestoreJob(load_job(job_id), clock)
            IN /\ heap' = Put(heap, slot, job)
               /\ registry' = Put(registry, job_id, slot)
               /\ pslot' = slot
               /\ pstatus' = job.status
               /\ ppc' = "read"
               /\ UNCHANGED << presp, prevRun >>
       ELSE /\ prevRun' = IF presp.status = "running" THEN presp.progress ELSE prevRun
            /\ presp' = [status |-> "404", progress |-> 0]
            /\ UNCHANGED << heap, registry, pslot, pstatus, ppc >>
  /\ UNCHANGED << clock, job_counter, store, saved, subVars, workVars, editVars, restarts, otherVars >>

\* lines 198-212: read job.progress and the other fields, answer
PollAnswer ==
  /\ ppc = "read"
  /\ prevRun' = IF presp.status = "running" THEN presp.progress ELSE prevRun
  /\ presp' = [status |-> pstatus, progress |-> heap[pslot].progress]
  /\ ppc' = "idle"
  /\ UNCHANGED << clock, procVars, store, saved, subVars, workVars, editVars,
                  polls, ptarget, pslot, pstatus, restarts, otherVars >>

\* ------------- GET /extract/<job_id>/results (get_extraction_results)
\* lines 222-228: the job is looked up in extraction_jobs only
GetResults(job_id) ==
  /\ rresp' = IF job_id \notin DOMAIN registry THEN 404
              ELSE IF heap[registry[job_id]].status # "complete" THEN 400
              ELSE 200
  /\ UNCHANGED << clock, procVars, store, saved, subVars, workVars, editVars, pollVars,
                  restarts, aresp, failures, agentVars >>

\* ------------ POST /extract/<job_id>/approve (approve_extraction)
\* lines 431-485: find the job (re-creating it from its file when it is not
\* resident); a complete job with results is written out as JSON-LD, which
\* can fail
approve_extraction(job_id) ==
  /\ IF job_id \in DOMAIN registry \/ Loadable(job_id)
       THEN LET slot == IF job_id \in DOMAIN registry THEN registry[job_id]
                        ELSE SlotOf(job_id)
                job == IF job_id \in DOMAIN registry THEN heap[slot]
                       ELSE RestoreJobPartial(load_job(job_id), clock)
            IN /\ heap' = Put(heap, slot, job)
               /\ registry' = Put(registry, job_id, slot)
               /\ aresp' \in IF job.status # "complete" \/ ~Truthy(job.results)
                                THEN {400} ELSE {200, 500}
       ELSE /\ aresp' = 404
            /\ UNCHANGED << heap, registry >>
  /\ UNCHANGED << clock, job_counter, store, saved, subVars, workVars, editVars, pollVars,
                  restarts, rresp, failures, agentVars >>

\* ------------------------------------------------------- crash and restart
\* get_all_jobs: every file that load_job can parse
get_all_jobs == { job_id \in DOMAIN store : Loadable(job_id) }

\* a file in temp/jobs that save_job did not write (left by an operator or by
\* another version): valid JSON without the filename, priority and options
\* members.  Job ids start at counter 1, so no job has this name.
StrayId == << 0, 0 >>

StrayRecord == [job_id |-> StrayId, status |-> "complete"]

StrayFile ==
  /\ StrayId \notin DOMAIN store
  /\ store' = Put(store, StrayId, << StrayRecord >>)
  /\ UNCHANGED << clock, procVars, saved, subVars, workVars, editVars, pollVars,
                  restarts, otherVars >>

\* the members load_jobs_from_persistence reads with job_data[...]
RequiredKeys == {"job_id", "filename", "priority", "options"}

WellFormed(job_data) == RequiredKeys \subseteq DOMAIN job_data

\* the orders in which storage_dir.glob("*.json") can yield the files
GlobOrders(files) ==
  { order \in [1..Cardinality(files) -> files] :
      \A i, j \in 1..Cardinality(files) : i # j => order[i] # order[j] }

\* lines 57-77: the loop restores the records in order; job_data['filename']
\* raises KeyError on a record without that member, the try around the whole
\* loop catches it, and the records after it are not restored
RECURSIVE RestoredIds(_, _)
RestoredIds(order, i) ==
  IF i > Cardinality(DOMAIN order) THEN {}
  ELSE IF ~WellFormed(load_job(order[i])) THEN {}
  ELSE {order[i]} \cup RestoredIds(order, i + 1)

\* The process dies with its threads and objects; files being written stay
\* as they are.  The new process imports extraction_utils: job_counter = 0,
\* extraction_jobs = {}, then load_jobs_from_persistence (lines 50-83).
Restart ==
  /\ restarts < MaxRestarts
  /\ restarts' = restarts + 1
  /\ job_counter' = 0
  /\ \E order \in GlobOrders(get_all_jobs) :
       /\ heap' = [k \in { SlotOf(job_id) : job_id \in RestoredIds(order, 1) } |->
                     RestoreJob(load_job(sid[k][1]), clock)]
       /\ registry' = [job_id \in RestoredIds(order, 1) |-> SlotOf(job_id)]
  /\ spc' = [r \in Slots |-> IF spc[r] = "idle" THEN "idle" ELSE "done"]
  /\ wpc' = [k \in Slots |-> "none"]
  /\ wi' = [k \in Slots |-> 0]
  /\ wr' = [k \in Slots |-> << >>]
  /\ attempts' = [k \in Slots |-> << >>]
  /\ epc' = "idle"
  /\ ewr' = << >>
  /\ eslot' = 0
  /\ ppc' = "idle"
  /\ pslot' = 0
  /\ pstatus' = "none"
  /\ UNCHANGED << clock, store, saved, stmp, sid, sresp, edits, eresp, polls, ptarget,
                  presp, prevRun, otherVars >>

\* ------------------------------------------------------ DataExtractionAgent
Gpt4o == "gpt-4o"

DeepSeek == "deepseek/DeepSeek-V3-0324"

Llama == "llama3.1:8b-instruct-q8_0"

AvailKeys == {Gpt4o, DeepSeek, Llama}

Strategies == << "native_structured", "json_mode_guided", "ollama_structured",
                "guided_json_prompting" >>

Priorities == {"cost", "quality", "speed", "privacy"}

\* GitHubModelsProcessor.test_connection: one test request; the dict it
\* returns has status success when the request was answered and status error
\* when it raised
GitHubModelsProcessor_test_connection(answered) ==
  [status |-> IF answered THEN "success" ELSE "error"]

\* LocalLlamaClient.test_connection: GET /api/version; the dict it returns has
\* status connected when the server answered and status failed otherwise
LocalLlamaClient_test_connection(answered) ==
  [status |-> IF answered THEN "connected" ELSE "failed"]

\* an availability test that takes the status success for a connection
TestModelAvailabilityAnySuccess(test_result, llama_status) ==
  [m \in AvailKeys |-> IF m = Llama THEN llama_status.status = "connected"
                       ELSE test_result.status \in {"connected", "success"}]

\* lines 106-139: test_result.get("status") == "connected" decides gpt-4o and
\* deepseek (the same endpoint), llama_status.get("status") == "connected"
\* the local llama
_test_model_availability(test_result, llama_status) ==
  [m \in AvailKeys |-> IF m = Llama THEN llama_status.status = "connected"
                       ELSE test_result.status = "connected"]

\* self.model_availability.get(m, False)
Avail(m) == m \in DOMAIN model_availability /\ model_availability[m]

\* agents.yaml, model_strategies: the strategies in file order, each with its
\* applicable_models
model_strategies ==
  << [name |-> "native_structured", applicable_models |-> << Gpt4o >>],
     [name |-> "json_mode_guided", applicable_models |-> << DeepSeek >>],
     [name |-> "ollama_structured", applicable_models |-> << Llama >>],
     [name |-> "guided_json_prompting", applicable_models |-> << Llama >>] >>

\* agents.yaml, strategy_selection.fallback_chain: any list of distinct
\* strategies
FallbackChains ==
  { chain \in UNION { [1..n -> { Strategies[i] : i \in 1..Len(Strategies) }] : n \in 0..MaxChain } :
      \A i, j \in DOMAIN chain : i # j => chain[i] # chain[j] }

Configs ==
  { [model_strategies |-> model_strategies, fallback_chain |-> chain] :
      chain \in FallbackChains }

\* the applicable_models of a strategy
Applicable(strategy) ==
  LET i == CHOOSE i \in 1..Len(agent_config.model_strategies) :
             agent_config.model_strategies[i].name = strategy
  IN agent_config.model_strategies[i].applicable_models

\* lines 244-248: the first strategy, in file order, that lists the model
ByModel(model) ==
  { i \in 1..Len(agent_config.model_strategies) :
      \E j \in 1..Len(agent_config.model_strategies[i].applicable_models) :
        agent_config.model_strategies[i].applicable_models[j] = model }

_select_strategy(priority, model) ==
  IF priority = "quality" /\ Avail(Gpt4o) THEN "native_structured"
  ELSE IF priority = "privacy" /\ Avail(Llama) THEN "ollama_structured"
  ELSE IF priority \in {"cost", "speed"} /\ Avail(Llama) THEN "ollama_structured"
  ELSE IF Avail(DeepSeek) THEN "json_mode_guided"
  ELSE IF Avail(Gpt4o) THEN "native_structured"
  ELSE IF model # None /\ Avail(model) /\ ByModel(model) # {}
    THEN agent_config.model_strategies[
           CHOOSE i \in ByModel(model) : \A j \in ByModel(model) : i <= j].name
  ELSE "guided_json_prompting"

\* the value that stands for RuntimeError("No available models for strategy")
NoModel == "RuntimeError"

\* lines 257-258
available_models(strategy) == SelectSeq(Applicable(strategy), Avail)

InSeq(x, seq) == \E i \in 1..Len(seq) : seq[i] = x

_select_model(strategy, priority) ==
  IF available_models(strategy) = << >> THEN NoModel
  ELSE IF priority = "cost" /\ InSeq(Llama, available_models(strategy)) THEN Llama
  ELSE IF priority = "quality" /\ InSeq("openai/gpt-4o", available_models(strategy))
    THEN "openai/gpt-4o"
  ELSE IF priority = "speed" /\ InSeq(DeepSeek, available_models(strategy)) THEN DeepSeek
  ELSE IF priority = "privacy" /\ InSeq(Llama, available_models(strategy)) THEN Llama
  ELSE available_models(strategy)[1]

\* lines 61-68
NewStats ==
  [total_extractions |-> 0, successful_extractions |-> 0,
   strategy_usage |-> << >>, model_usage |-> << >>]

Count(usage, key) == IF key \in DOMAIN usage THEN usage[key] ELSE 0

\* lines 515-533
_update_performance_stats(stats, result) ==
  [ total_extractions |-> stats.total_extractions + 1,
    successful_extractions |->
      stats.successful_extractions + (IF result.success THEN 1 ELSE 0),
    strategy_usage |-> Put(stats.strategy_usage, result.strategy_used,
                           Count(stats.strategy_usage, result.strategy_used) + 1),
    model_usage |-> Put(stats.model_usage, result.model_used,
                        Count(stats.model_usage, result.model_used) + 1) ]

\* ExtractionResult: success, strategy_used, model_used
ExtractionResult(success, strategy_used, model_used) ==
  [kind |-> "result", success |-> success, strategy_used |-> strategy_used,
   model_used |-> model_used]

Raised == [kind |-> "raised", success |-> FALSE, strategy_used |-> "-", model_used |-> "-"]

\* the provider call of an attempt returns stakeholders or raises; with no
\* model selected no provider is called, and _extract_guided_json_prompting
\* raises before any call when the local llama is marked unavailable
ProviderOutcomes(selected_strategy, selected_model) ==
  IF selected_model = NoModel THEN {"fail"}
  ELSE IF selected_strategy = "guided_json_prompting" /\ ~Avail(Llama) THEN {"fail"}
  ELSE {"ok", "fail"}

AgentFrame == UNCHANGED << clock, procVars, store, saved, subVars, workVars, editVars,
                           pollVars, restarts, readVars, failures, model_availability,
                           agent_config, reachable >>

\* a caller invokes agent.extract_stakeholders(content, title, priority,
\* strategy, model)
AgentCall(priority, strategy, model) ==
  /\ astack = << >>
  /\ acalls < MaxCalls
  /\ acalls' = acalls + 1
  /\ acall' = << [priority |-> priority, strategy |-> strategy, model |-> model] >>
  /\ astack' = << [strategy |-> strategy, model |-> model, i |-> 0] >>
  /\ attempted' = << >>
  /\ aresult' = << >>
  /\ abase' = << performance_stats >>
  /\ UNCHANGED performance_stats
  /\ AgentFrame

\* lines 164-226, one execution of the body of extract_stakeholders: select,
\* run the strategy, then either update the statistics and return the result
\* (through every enclosing call), or enter _attempt_fallback, or return an
\* error result
AgentAttempt ==
  /\ astack # << >>
  /\ astack[Len(astack)].i = 0
  /\ LET top == astack[Len(astack)]
         priority == acall[1].priority
         selected_strategy == IF top.strategy # None THEN top.strategy
                              ELSE _select_strategy(priority, top.model)
         selected_model == IF top.model # None THEN top.model
                           ELSE _select_model(selected_strategy, priority)
     IN /\ attempted' = Append(attempted, << selected_strategy, selected_model >>)
        /\ \E outcome \in ProviderOutcomes(selected_strategy, selected_model) :
             IF outcome = "ok"
               THEN /\ performance_stats' =
                         _update_performance_stats(performance_stats,
                           ExtractionResult(TRUE, selected_strategy, selected_model))
                    /\ aresult' = << ExtractionResult(TRUE, selected_strategy, selected_model) >>
                    /\ astack' = << >>
               ELSE IF selected_strategy # "guided_json_prompting"
                 THEN /\ astack' = [astack EXCEPT ![Len(astack)].i = 1]
                      /\ UNCHANGED << performance_stats, aresult >>
                 ELSE /\ aresult' = << ExtractionResult(FALSE, selected_strategy,
                                         IF selected_model = NoModel THEN "unknown"
                                         ELSE selected_model) >>
                      /\ astack' = << >>
                      /\ UNCHANGED performance_stats
  /\ UNCHANGED << acall, acalls, abase >>
  /\ AgentFrame

\* lines 479-487, one turn of the loop of _attempt_fallback: call
\* extract_stakeholders with the next strategy of the chain.  At the
\* recursion limit the call raises RecursionError, which the loop catches
\* like any failure of the strategy.
AgentFallbackCall ==
  /\ astack # << >>
  /\ astack[Len(astack)].i \in 1..Len(agent_config.fallback_chain)
  /\ astack' = IF Len(astack) < MaxDepth
                 THEN Append(astack, [strategy |-> agent_config.fallback_chain[astack[Len(astack)].i],
                                      model |-> None, i |-> 0])
                 ELSE [astack EXCEPT ![Len(astack)].i = astack[Len(astack)].i + 1]
  /\ UNCHANGED << performance_stats, acall, aresult, attempted, acalls, abase >>
  /\ AgentFrame

\* line 490: the chain is exhausted, RuntimeError leaves _attempt_fallback and
\* the extract_stakeholders call that made it; the loop of the enclosing
\* _attempt_fallback catches it and goes on, the outermost caller receives it
AgentFallbackRaise ==
  /\ astack # << >>
  /\ astack[Len(astack)].i > Len(agent_config.fallback_chain)
  /\ IF Len(astack) = 1
       THEN /\ astack' = << >>
            /\ aresult' = << Raised >>
       ELSE /\ astack' = [SubSeq(astack, 1, Len(astack) - 1) EXCEPT
                            ![Len(astack) - 1].i = astack[Len(astack) - 1].i + 1]
            /\ UNCHANGED aresult
  /\ UNCHANGED << performance_stats, acall, attempted, acalls, abase >>
  /\ AgentFrame

ExplicitStrategies == {None} \cup { Strategies[i] : i \in 1..Len(Strategies) }

ExplicitModels == {None} \cup AvailKeys

\* a DataExtractionAgent has been constructed (lines 49-71)
InitAgent ==
  /\ JobInit
  /\ reachable \in [github : BOOLEAN, llama : BOOLEAN]
  /\ model_availability =
       _test_model_availability(GitHubModelsProcessor_test_connection(reachable.github),
                                LocalLlamaClient_test_connection(reachable.llama))
  /\ agent_config \in Configs
  /\ performance_stats = NewStats
  /\ astack = << >>
  /\ acall = << >>
  /\ aresult = << >>
  /\ attempted = << >>
  /\ acalls = 0
  /\ abase = << >>

\* ------------------------- try_llm_extraction inside run_extraction_job
\* line 220 of run_extraction_job, followed into extract_stakeholders_enhanced
\* and try_llm_extraction.  Without a source file or without content no LLM
\* is called and the call returns at once.  Otherwise (bridge lines 261-271)
\* a DataExtractionAgent is constructed and its extract_stakeholders is called
\* with priority="cost" and neither strategy nor model.
NoOutcomes == [i \in 1..Len(Providers) |-> "fail"]

BridgeCallAgent(k) ==
  /\ WorkerAt(k, "w220")
  /\ \E file_found \in BOOLEAN, has_content \in BOOLEAN :
       IF file_found /\ has_content
         THEN /\ reachable' \in [github : BOOLEAN, llama : BOOLEAN]
              /\ model_availability' =
                   _test_model_availability(
                     GitHubModelsProcessor_test_connection(reachable'.github),
                     LocalLlamaClient_test_connection(reachable'.llama))
              /\ agent_config' \in Configs
              /\ performance_stats' = NewStats
              /\ acalls' = 1
              /\ acall' = << [priority |-> "cost", strategy |-> None, model |-> None] >>
              /\ astack' = << [strategy |-> None, model |-> None, i |-> 0] >>
              /\ attempted' = << >>
              /\ aresult' = << >>
              /\ abase' = << NewStats >>
              /\ wpc' = [wpc EXCEPT ![k] = "b273"]
              /\ UNCHANGED << heap, attempts >>
         ELSE /\ heap' = [heap EXCEPT ![k].results =
                            extract_stakeholders_enhanced(file_found, has_content,
                                                          NoOutcomes, FALSE)]
              /\ attempts' = [attempts EXCEPT ![k] = << >>]
              /\ wpc' = [wpc EXCEPT ![k] = "w222"]
              /\ UNCHANGED agentVars
  /\ UNCHANGED << clock, job_counter, registry, store, saved, subVars, wi, wr, editVars,
                  pollVars, restarts, readVars, failures >>

\* bridge lines 273-300 and the rest of try_llm_extraction: the agent's call
\* has returned or raised.  Its stakeholders are used when the result has
\* success and a non-empty list that survives processing; otherwise the other
\* providers are tried in turn.  The agent, a local of try_llm_extraction,
\* is dropped on return.
BridgeReturn(k) ==
  /\ WorkerAt(k, "b273")
  /\ astack = << >>
  /\ Len(aresult) = 1
  /\ \E outcomes \in Outcomes, pattern_found \in BOOLEAN :
       /\ outcomes[1] = "ok" => (aresult[1].kind = "result" /\ aresult[1].success)
       /\ heap' = [heap EXCEPT ![k].results =
                     extract_stakeholders_enhanced(TRUE, TRUE, outcomes, pattern_found)]
       /\ attempts' = [attempts EXCEPT ![k] = Attempted(outcomes, 1)]
  /\ wpc' = [wpc EXCEPT ![k] = "w222"]
  /\ model_availability' = << >>
  /\ agent_config' = << >>
  /\ performance_stats' = << >>
  /\ astack' = << >>
  /\ acall' = << >>
  /\ aresult' = << >>
  /\ attempted' = << >>
  /\ acalls' = 0
  /\ abase' = << >>
  /\ reachable' = << >>
  /\ UNCHANGED << clock, job_counter, registry, store, saved, subVars, wi, wr, editVars,
                  pollVars, restarts, readVars, failures >>

\* ------------------------------------------------------------ specifications
\* Spec follows one job through its life: its submission, its worker, edit
\* requests on it, and crashes of the process.  Job is the first request.
Job == CHOOSE r \in Slots : \A q \in Slots : r <= q

Next ==
  \/ Tick
  \/ SubmitLoad(Job)
  \/ SubmitStore(Job)
  \/ SubmitCreate(Job)
  \/ W141(Job)
  \/ W142(Job)
  \/ W148(Job)
  \/ W165(Job)
  \/ WLoop(Job)
  \/ W213(Job)
  \/ W220(Job)
  \/ W222(Job)
  \/ W229(Job)
  \/ W235(Job)
  \/ W240(Job)
  \/ W245(Job)
  \/ WDump(Job)
  \/ \E job_id \in KnownIds, stakeholders \in EditInputs : EditPost(job_id, stakeholders)
  \/ EditDump
  \/ Restart

Spec == Init /\ [][Next]_vars

\* SpecPoll follows one job and a client that polls its status while the
\* worker runs.
NextPoll ==
  \/ SubmitLoad(Job)
  \/ SubmitStore(Job)
  \/ SubmitCreate(Job)
  \/ W141(Job)
  \/ W142(Job)
  \/ W148(Job)
  \/ W165(Job)
  \/ WLoop(Job)
  \/ W213(Job)
  \/ W220(Job)
  \/ W222(Job)
  \/ W229(Job)
  \/ W235(Job)
  \/ W240(Job)
  \/ W245(Job)
  \/ WDump(Job)
  \/ \E job_id \in KnownIds : PollStatus(job_id)
  \/ PollAnswer

SpecPoll == Init /\ [][NextPoll]_vars

\* SpecRace follows the request threads of concurrent submissions up to the
\* start of their workers.
NextRace ==
  \/ Tick
  \/ \E r \in Slots : SubmitLoad(r)
  \/ \E r \in Slots : SubmitStore(r)
  \/ \E r \in Slots : SubmitCreate(r)
  \/ \E k \in Slots : W141(k)
  \/ \E k \in Slots : WDump(k)

SpecRace == Init /\ [][NextRace]_vars

\* SpecStartup follows one job, a stray file in the jobs directory, a crash
\* and the requests of a client that asks about the job after the restart.
Requests ==
  polls + edits + (IF rresp # 0 THEN 1 ELSE 0) + (IF aresp # 0 THEN 1 ELSE 0)

ClientAsks == restarts > 0 /\ Requests < MaxRequests

NextStartup ==
  \/ SubmitLoad(Job)
  \/ SubmitStore(Job)
  \/ SubmitCreate(Job)
  \/ W141(Job)
  \/ W142(Job)
  \/ W148(Job)
  \/ W165(Job)
  \/ WLoop(Job)
  \/ W213(Job)
  \/ W220(Job)
  \/ W222(Job)
  \/ W229(Job)
  \/ W235(Job)
  \/ W240(Job)
  \/ W245(Job)
  \/ WDump(Job)
  \/ StrayFile
  \/ Restart
  \/ ClientAsks /\ \E job_id \in KnownIds : PollStatus(job_id)
  \/ PollAnswer
  \/ ClientAsks /\ \E job_id \in KnownIds : GetResults(job_id)
  \/ ClientAsks /\ \E job_id \in KnownIds : approve_extraction(job_id)
  \/ ClientAsks /\ \E job_id \in KnownIds, stakeholders \in EditInputs :
                        EditPost(job_id, stakeholders)
  \/ EditDump

SpecStartup == Init /\ [][NextStartup]_vars

\* SpecSaveFail follows one job whose saves can fail.
NextSaveFail ==
  \/ SubmitLoad(Job)
  \/ SubmitStore(Job)
  \/ SubmitCreate(Job)
  \/ W141(Job)
  \/ W142(Job)
  \/ W148(Job)
  \/ W165(Job)
  \/ WLoop(Job)
  \/ W213(Job)
  \/ W220(Job)
  \/ W222(Job)
  \/ W229(Job)
  \/ W235(Job)
  \/ W240(Job)
  \/ W245(Job)
  \/ WDump(Job)
  \/ WDumpFails(Job)

SpecSaveFail == Init /\ [][NextSaveFail]_vars

\* SpecLive follows one job to its end, with the edit requests and the failing
\* saves that can happen meanwhile, in a process that does not crash.  The
\* worker is a thread of its own (ThreadPoolExecutor), which the scheduler
\* runs whenever it has a step to take; its calls return.
NextLive ==
  \/ SubmitLoad(Job)
  \/ SubmitStore(Job)
  \/ SubmitCreate(Job)
  \/ WorkerStep(Job)
  \/ WDumpFails(Job)
  \/ \E job_id \in KnownIds, stakeholders \in EditInputs : EditPost(job_id, stakeholders)
  \/ EditDump

SpecLive == Init /\ [][NextLive]_vars /\ WF_vars(WorkerStep(Job))

\* SpecAgent follows the calls of extract_stakeholders on one agent.
NextAgent ==
  \/ \E priority \in Priorities, strategy \in ExplicitStrategies, model \in ExplicitModels :
       AgentCall(priority, strategy, model)
  \/ AgentAttempt
  \/ AgentFallbackCall
  \/ AgentFallbackRaise

SpecAgent == InitAgent /\ [][NextAgent]_vars

\* SpecSelect follows the calls that leave the choice of strategy and model to
\* the agent, as the convenience functions and try_llm_extraction make them.
NextSelect ==
  \/ \E priority \in Priorities : AgentCall(priority, None, None)
  \/ AgentAttempt
  \/ AgentFallbackCall
  \/ AgentFallbackRaise

SpecSelect == InitAgent /\ [][NextSelect]_vars

\* SpecResubmit follows submissions made before and after a crash, up to the
\* first save of their workers.
NextResubmit ==
  \/ Tick
  \/ \E r \in Slots : SubmitLoad(r)
  \/ \E r \in Slots : SubmitStore(r)
  \/ \E r \in Slots : SubmitCreate(r)
  \/ \E k \in Slots : W141(k)
  \/ \E k \in Slots : WDump(k)
  \/ Restart

SpecResubmit == Init /\ [][NextResubmit]_vars

\* SpecExtract follows jobs submitted one after the other, each through its
\* worker and into the agent that try_llm_extraction constructs for it.
NextExtract ==
  \/ \E r \in Slots : (\A q \in Slots : q < r => wpc[q] = "done") /\ SubmitLoad(r)
  \/ \E r \in Slots : SubmitStore(r)
  \/ \E r \in Slots : SubmitCreate(r)
  \/ \E k \in Slots : W141(k)
  \/ \E k \in Slots : W142(k)
  \/ \E k \in Slots : W148(k)
  \/ \E k \in Slots : W165(k)
  \/ \E k \in Slots : WLoop(k)
  \/ \E k \in Slots : W213(k)
  \/ \E k \in Slots : BridgeCallAgent(k)
  \/ AgentAttempt
  \/ AgentFallbackCall
  \/ AgentFallbackRaise
  \/ \E k \in Slots : BridgeReturn(k)
  \/ \E k \in Slots : W222(k)
  \/ \E k \in Slots : W229(k)
  \/ \E k \in Slots : W235(k)
  \/ \E k \in Slots : W240(k)
  \/ \E k \in Slots : W245(k)
  \/ \E k \in Slots : WDump(k)

SpecExtract == Init /\ [][NextExtract]_vars

\* ------------------------------------------------------------------ claims
StatusRank(status) ==
  CASE status = "pending" -> 0
    [] status = "running" -> 1
    [] status = "complete" -> 2
    [] status = "error" -> 2

\* C1: within a process, the status of a job object only moves forward along
\* pending, running, complete or pending, running, error, and a status of
\* complete or error never changes again.
C1_StatusSequence ==
  [][ \A k \in Live \cap DOMAIN heap' :
        restarts' = restarts =>
          \/ heap'[k].status = heap[k].status
          \/ StatusRank(heap[k].status) < StatusRank(heap'[k].status) ]_vars

\* C2: a job whose status is complete or error has results exactly when it is
\* complete and an error exactly when it is error.
C2_ExactlyOneOutcome ==
  \A k \in Live :
    heap[k].status \in Terminal =>
      /\ Truthy(heap[k].results) <=> heap[k].status = "complete"
      /\ heap[k].error # None <=> heap[k].status = "error"

\* the number of failure entries the error field holds: it is None or one
\* message, str(e)
ErrorEntries(error) == IF error = None THEN 0 ELSE 1

AllFailed(k) ==
  /\ Len(attempts[k]) > 0
  /\ \A i \in 1..Len(attempts[k]) : attempts[k][i] = "fail"

\* C3: a job all of whose attempted providers failed ends with status error,
\* never complete, and its error lists one entry per attempt.
C3_AllFailedIsError ==
  \A k \in Live :
    (AllFailed(k) /\ heap[k].status \in Terminal) =>
      /\ heap[k].status = "error"
      /\ ErrorEntries(heap[k].error) = Len(attempts[k])

\* C4: while a job is pending or running, its object and its file have
\* neither results nor error.
C4_NoOutcomeBeforeTerminal ==
  /\ \A k \in Live :
       heap[k].status \notin Terminal =>
         ~Truthy(heap[k].results) /\ heap[k].error = None
  /\ \A job_id \in DOMAIN store :
       (Loadable(job_id) /\ load_job(job_id).status \notin Terminal) =>
         load_job(job_id).results.kind = Null /\ load_job(job_id).error = Null

\* C5: two submissions of one process are answered with different job ids.
C5_DistinctIds ==
  \A r1, r2 \in Slots :
    (r1 # r2 /\ sid[r1] # << >> /\ sid[r2] # << >>) => sid[r1] # sid[r2]

\* the records save_job calls that have not returned are writing for job_id
InFlight(job_id) ==
  { SaveJobData(wr[k][1]) : k \in { q \in Slots : Len(wr[q]) = 1 /\ wr[q][1].job_id = job_id } }
  \cup (IF Len(ewr) = 1 /\ ewr[1].job_id = job_id THEN { SaveJobData(ewr[1]) } ELSE {})

\* C6: once a save of a job has completed, its file always holds a complete
\* record, the previous one or the one being written, whenever it is read:
\* during a later write and after a crash.
C6_NoTornRead ==
  \A job_id \in DOMAIN saved :
    /\ Loadable(job_id)
    /\ load_job(job_id) \in { SaveJobData(saved[job_id]) } \cup InFlight(job_id)

\* C7: a restart restores, for every job whose file holds the record of a
\* completed save_job, a job with every field equal to the value saved.
C7_RestartRoundTrip ==
  [][ restarts' # restarts =>
        \A job_id \in DOMAIN saved :
          Loadable(job_id) =>
            /\ job_id \in DOMAIN registry'
            /\ heap'[registry'[job_id]] = saved[job_id] ]_vars

\* a restart has restored a job that had run to complete
C7_Witness ==
  /\ restarts > 0
  /\ \E job_id \in DOMAIN registry :
       /\ heap[registry[job_id]].status = "complete"
       /\ heap[registry[job_id]].progress = 100
       /\ heap[registry[job_id]].cost_estimate > 0
       /\ Truthy(heap[registry[job_id]].results)
       /\ wpc[registry[job_id]] = "none"

C9_SingleWriter ==
  [][ (heap' # heap \/ store' # store) =>
        (WorkerStep(Job) \/ SubmitCreate(Job) \/ Restart) ]_vars

\* the worker steps in which job.update_status is called
UpdateStatusApplied(k) ==
  \/ W141(k)
  \/ W229(k)
  \/ (W142(k) \/ W165(k) \/ W240(k)) /\ wpc'[k] = "w245"

\* C10: update_status on a job that is already complete or error changes
\* neither the job nor its file.
C10_TerminalNoOp ==
  [][ \A k \in Live :
        (heap[k].status \in Terminal /\ UpdateStatusApplied(k)) =>
          heap' = heap /\ store' = store ]_vars

\* C11: once a submission has been answered with a job id, the file of that
\* id exists: a record was written for the job before the answer, and so
\* before the worker's first step.
C11_PendingPersisted ==
  \A r \in Slots :
    (restarts = 0 /\ sid[r] # << >>) => sid[r][1] \in DOMAIN store

\* C14: a submission answered with an error has left no job in the registry
\* and has started no worker.
C14_FailedSubmissionLeavesNothing ==
  \A r \in Slots :
    (restarts = 0 /\ sresp[r] >= 400) =>
      /\ \A job_id \in DOMAIN registry : registry[job_id] # r
      /\ wpc[r] = "none"
      /\ job_counter = 0

\* C12: a read of a job that is in the registry or has a readable file is
\* never answered with not-found, by any of the status, results, approve and
\* edit endpoints, and leaves the job in the registry.
C12_NotFoundOnlyWhenAbsent ==
  [][ \A job_id \in KnownIds :
        (job_id \in DOMAIN registry \/ Loadable(job_id)) =>
          /\ PollStatus(job_id) =>
                (presp'.status # "404" /\ job_id \in DOMAIN registry')
          /\ GetResults(job_id) =>
                (rresp' # 404 /\ job_id \in DOMAIN registry')
          /\ approve_extraction(job_id) =>
                (aresp' # 404 /\ job_id \in DOMAIN registry')
          /\ (\E stakeholders \in EditInputs : EditPost(job_id, stakeholders)) =>
                (eresp' # 404 /\ job_id \in DOMAIN registry') ]_vars

\* C13: a restart restores every well-formed record of the jobs directory,
\* whatever the other files hold and in whatever order the files are read.
C13_CorruptRecordsSkipped ==
  [][ restarts' # restarts =>
        \A job_id \in get_all_jobs :
          WellFormed(load_job(job_id)) => job_id \in DOMAIN registry' ]_vars

\* the exceptions run_extraction_job's own statements raise
WorkerErrors == {"unhashable type", "UnboundLocalError",
                 "object of type 'NoneType' has no len()"}

\* C15: a save_job that fails leaves the job object with the values it was
\* given and the worker at the step it was at, and a job whose saves failed
\* ends complete, or error for a failure of the run itself, never for the
\* failed save.
C15_SaveFailureTolerated ==
  /\ [][ \A k \in Slots :
           failures'[k] > failures[k] =>
             /\ heap'[k] = wr[k][1]
             /\ wpc'[k] = wpc[k]
             /\ wi'[k] = wi[k] ]_vars
  /\ [](\A k \in Live :
          (failures[k] > 0 /\ heap[k].status \in Terminal) =>
            IF heap[k].status = "error"
              THEN heap[k].error \in WorkerErrors
              ELSE heap[k].error = None /\ heap[k].progress = 100)

\* a job has run to complete although saves of it failed
C15_Witness ==
  \E k \in Live :
    /\ failures[k] = MaxFailures
    /\ wpc[k] = "done"
    /\ heap[k].status = "complete"
    /\ Loadable(heap[k].job_id)

\* C19: a job whose worker was started eventually has status complete or
\* error, whatever requests arrive and whichever saves fail meanwhile.
C19_WorkerReachesTerminal ==
  (wpc[Job] = "w141") ~> (Job \in Live /\ heap[Job].status \in Terminal)

\* a worker has run to its end while an edit request was served
C19_Witness ==
  /\ Job \in Live
  /\ wpc[Job] = "done"
  /\ heap[Job].status \in Terminal
  /\ edits > 0

\* the strategies whose models are remote
RemoteStrategies == {"json_mode_guided", "native_structured"}

C17_ExplicitPairOnly ==
  ( /\ Len(acall) = 1
    /\ acall[1].strategy # None
    /\ acall[1].model # None
    /\ Avail(acall[1].model) ) =>
      \A n \in 1..Len(attempted) :
        attempted[n][2] # NoModel =>
          attempted[n] = << acall[1].strategy, acall[1].model >>

\* C20: a call of extract_stakeholders that has returned a result has added
\* one to total_extractions, and one to successful_extractions exactly when
\* the result has success true.
C20_EveryCallCounted ==
  ( /\ Len(aresult) = 1
    /\ aresult[1].kind = "result" ) =>
      /\ performance_stats.total_extractions = abase[1].total_extractions + 1
      /\ performance_stats.successful_extractions =
           abase[1].successful_extractions + (IF aresult[1].success THEN 1 ELSE 0)

\* the persisted records of the jobs that have ended
TerminalRecords == { job_id \in get_all_jobs : load_job(job_id).status \in Terminal }

\* C21: the statistics of a newly constructed DataExtractionAgent equal the
\* replay of the persisted terminal job records: one extraction per record,
\* a successful one per record with status complete.
C21_StatsRebuiltFromRecords ==
  ( /\ \E k \in Slots : wpc[k] = "b273"
    /\ attempted = << >> ) =>
      /\ performance_stats.total_extractions = Cardinality(TerminalRecords)
      /\ performance_stats.successful_extractions =
           Cardinality({ job_id \in TerminalRecords : load_job(job_id).status = "complete" })

\* no provider called for the job has returned stakeholders
NoCandidateSucceeded(k) ==
  \A i \in 1..Len(attempts[k]) : attempts[k][i] # "ok"

\* C22: the model_used of a job is None as long as no extraction candidate
\* has succeeded for it: while pending, while running before the extraction
\* returns, and in a job that ends with status error.
C22_ModelUsedNullUntilSuccess ==
  \A k \in Live :
    (restarts = 0 /\ wpc[k] # "none" /\ NoCandidateSucceeded(k)) =>
      heap[k].model_used = None

C29_AvailabilityMatchesConnection ==
  model_availability # << >> =>
    /\ Avail(Gpt4o) <=> reachable.github
    /\ Avail(DeepSeek) <=> reachable.github
    /\ Avail(Llama) <=> reachable.llama

\* C30: the priority the agent's selection is called with for a job is the
\* priority the job was submitted with.
C30_SelectorPriorityIsJobPriority ==
  \A k \in Slots :
    (wpc[k] = "b273" /\ Len(acall) = 1) => acall[1].priority = heap[k].priority

\* C23: with no explicit strategy or model, the strategy selected is the
\* default guided_json_prompting exactly when none of the three models is
\* marked available.
C23_DefaultOnlyWhenNothingAvailable ==
  ( /\ Len(acall) = 1
    /\ acall[1].strategy = None
    /\ acall[1].model = None
    /\ Len(attempted) > 0 ) =>
      ( attempted[1][1] = "guided_json_prompting" <=> \A m \in AvailKeys : ~Avail(m) )

\* C24: after a failed first attempt with a strategy that has a fallback, the
\* attempts that follow take the strategies of fallback_chain in chain order,
\* and a failure is returned or raised only when every element of the chain
\* has been attempted.
C24_FallbackInChainOrder ==
  ( Len(attempted) > 0 /\ attempted[1][1] # "guided_json_prompting" ) =>
    /\ \A n \in 2..Len(attempted) :
         /\ n - 1 <= Len(agent_config.fallback_chain)
         /\ attempted[n][1] = agent_config.fallback_chain[n - 1]
    /\ ( Len(aresult) = 1 /\ ~aresult[1].success ) =>
         Len(attempted) = 1 + Len(agent_config.fallback_chain)

\* C27: a call of extract_stakeholders makes at most one attempt more than
\* fallback_chain has elements.
C27_AttemptsBounded ==
  agent_config # << >> => Len(attempted) <= 1 + Len(agent_config.fallback_chain)

\* C26: a request that re-creates a job from its file (the job is not in the
\* registry) leaves in the registry a job equal to the record in every field;
\* for an edit, in every field but the edited results, which is also what the
\* save of the edit then writes.
C26_RehydrationKeepsRecord ==
  [][ \A job_id \in KnownIds :
        (job_id \notin DOMAIN registry /\ Loadable(job_id)) =>
          /\ PollStatus(job_id) =>
                SaveJobData(heap'[registry'[job_id]]) = load_job(job_id)
          /\ approve_extraction(job_id) =>
                SaveJobData(heap'[registry'[job_id]]) = load_job(job_id)
          /\ (\E stakeholders \in EditInputs : EditPost(job_id, stakeholders)) =>
                /\ [SaveJobData(heap'[registry'[job_id]]) EXCEPT
                      !.results = load_job(job_id).results] = load_job(job_id)
                /\ ewr' = << heap'[registry'[job_id]] >> ]_vars

\* C28: within a process, a job of the registry that has no worker (it was
\* restored from its file) and has status pending or running stays in the
\* registry with that status and without a worker.
C28_RestoredJobsStayActive ==
  [][ restarts' = restarts =>
        \A job_id \in DOMAIN registry :
          ( /\ wpc[registry[job_id]] = "none"
            /\ heap[registry[job_id]].status \in {"pending", "running"} ) =>
              /\ job_id \in DOMAIN registry'
              /\ heap'[registry'[job_id]].status = heap[registry[job_id]].status
              /\ wpc'[registry'[job_id]] = "none" ]_vars

====
